---- MODULE Spec2Model ----
(***************************************************************************)
(* EmbeddingConfigurator (crewai/utilities/embedding_configurator.py):    *)
(* the provider registry, the configure_embedder dispatcher, the          *)
(* environment-default path and the provider adapters.                    *)
(*                                                                         *)
(* Python values are modelled as strings: a str is itself, None is        *)
(* PyNone, and the objects a caller can hand in are the tokens EF_OK,     *)
(* EF_BAD, EF_FALSY and NOT_EF.  An object returned by resolve is a       *)
(* record [cls, id]: id = 0 for an object the caller supplied, id >= 1    *)
(* for the id-th object built by a provider client constructor.           *)
(***************************************************************************)
EXTENDS Integers, Sequences, FiniteSets, TLC

VARIABLES
    env,                  \* os.environ: a function from the variables that are set to their values
    embedding_functions,  \* self.embedding_functions: the ordered dict, a sequence of [key, fn]
    request,              \* the caller's embedder_config dict
    outcome,              \* what the last configure_embedder call did: returned a value or raised
    trace,                \* the last call's validations, registry lookups, imports and constructor calls
    resolves,             \* the arguments of every configure_embedder invocation of the last call
    instances,            \* how many objects the client constructors have built so far
    prev,                 \* the value the latest earlier successful call returned
    last,                 \* the last call: its entry point, and `instances` when it began
    embedding             \* what calling the returned Watson embedding function did

vars == <<env, embedding_functions, request, outcome, trace, resolves, instances, prev, last, embedding>>

(***************************************************************************)
(* Bounds                                                                  *)
(***************************************************************************)
MaxConfigKeys == 2   \* options present in the caller's config mapping
MaxInstances == 2    \* objects the client constructors build in one behaviour

(***************************************************************************)
(* Python values                                                           *)
(***************************************************************************)
PyNone == "<None>"
EF_OK == "<EmbeddingFunction: conformant>"
EF_BAD == "<EmbeddingFunction: __call__ with a wrong signature>"
EF_FALSY == "<EmbeddingFunction: conformant, __len__ is 0>"
NOT_EF == "<int 42>"

\* isinstance(v, EmbeddingFunction)
IsEmbeddingFunction(v) == v \in {EF_OK, EF_BAD, EF_FALSY}

\* bool(v): None, the empty string and an object whose __len__ is 0 are falsy
Truthy(v) == v \notin {PyNone, "", EF_FALSY}

\* a or b
PyOr(a, b) == IF Truthy(a) THEN a ELSE b

\* d.get(k)
Get(d, k) == IF k \in DOMAIN d THEN d[k] ELSE PyNone

\* d.get(k, dflt)
GetDefault(d, k, dflt) == IF k \in DOMAIN d THEN d[k] ELSE dflt

\* os.getenv(name) and os.getenv(name, dflt)
Getenv(e, name) == Get(e, name)
GetenvDefault(e, name, dflt) == GetDefault(e, name, dflt)

\* a dict literal {k1: v1, k2: v2}
Dict2(k1, v1, k2, v2) == [k \in {k1, k2} |-> IF k = k1 THEN v1 ELSE v2]

EmptyDict == [k \in {} |-> PyNone]

(***************************************************************************)
(* Values returned and errors raised                                       *)
(***************************************************************************)
NoValue == [cls |-> PyNone, id |-> 0]
Obj(v) == [cls |-> v, id |-> 0]
NoExc == [type |-> "", msg |-> "", detail |-> "", supported |-> <<>>, cause |-> ""]

Returned(v, tr, config) ==
    [kind |-> "returned", value |-> v, exc |-> NoExc, trace |-> tr, config |-> config]

Raised(e, tr, config) ==
    [kind |-> "raised", value |-> NoValue, exc |-> e, trace |-> tr, config |-> config]

\* one entry of the trace
Event(op, name, args, raised) == [op |-> op, name |-> name, args |-> args, raised |-> raised]

\* the error a provider client constructor raises (whatever the SDK throws)
ClientError(cls) ==
    [type |-> "<error of the client constructor>", msg |-> cls, detail |-> "",
     supported |-> <<>>, cause |-> ""]

\* cls(**args): the provider's client constructor, which either builds the
\* nid-th object or raises; the adapter neither catches nor retries
Construct(cls, args, config, io, nid) ==
    IF io.ctor_raises
    THEN Raised(ClientError(cls), <<Event("ctor", cls, args, TRUE)>>, config)
    ELSE Returned([cls |-> cls, id |-> nid], <<Event("ctor", cls, args, FALSE)>>, config)

(***************************************************************************)
(* Provider adapters: (config, model_name) -> EmbeddingFunction.  e is     *)
(* os.environ, io is what the outside world does during the call           *)
(* (ctor_raises: the client constructor raises; sdk_installed: the         *)
(* ibm_watsonx_ai import succeeds) and nid is the id of the next object.   *)
(***************************************************************************)
\* Faulty variant: os.getenv("OPENAI_API_KEY") or config.get("api_key")
_configure_openai_EnvFirst(config, model_name, e, io, nid) ==
    Construct("OpenAIEmbeddingFunction",
              Dict2("api_key", PyOr(Getenv(e, "OPENAI_API_KEY"), Get(config, "api_key")),
                    "model_name", model_name),
              config, io, nid)

_configure_openai(config, model_name, e, io, nid) ==
    Construct("OpenAIEmbeddingFunction",
              Dict2("api_key", PyOr(Get(config, "api_key"), Getenv(e, "OPENAI_API_KEY")),
                    "model_name", model_name),
              config, io, nid)

\* Faulty variant: api_type=config.get("api_type") or "azure"
_configure_azure_OrDefault(config, model_name, e, io, nid) ==
    Construct("OpenAIEmbeddingFunction",
              [a \in {"api_key", "api_base", "api_type", "api_version", "model_name"} |->
                  CASE a = "api_key" -> Get(config, "api_key")
                    [] a = "api_base" -> Get(config, "api_base")
                    [] a = "api_type" -> PyOr(Get(config, "api_type"), "azure")
                    [] a = "api_version" -> Get(config, "api_version")
                    [] OTHER -> model_name],
              config, io, nid)

\* Faulty variant: api_type=config.setdefault("api_type", "azure")
_configure_azure_SetDefault(config, model_name, e, io, nid) ==
    LET written == [k \in DOMAIN config \cup {"api_type"} |->
                       IF k \in DOMAIN config THEN config[k] ELSE "azure"]
    IN Construct("OpenAIEmbeddingFunction",
                 [a \in {"api_key", "api_base", "api_type", "api_version", "model_name"} |->
                     CASE a = "api_key" -> Get(config, "api_key")
                       [] a = "api_base" -> Get(config, "api_base")
                       [] a = "api_type" -> written["api_type"]
                       [] a = "api_version" -> Get(config, "api_version")
                       [] OTHER -> model_name],
                 written, io, nid)

_configure_azure(config, model_name, e, io, nid) ==
    Construct("OpenAIEmbeddingFunction",
              [a \in {"api_key", "api_base", "api_type", "api_version", "model_name"} |->
                  CASE a = "api_key" -> Get(config, "api_key")
                    [] a = "api_base" -> Get(config, "api_base")
                    [] a = "api_type" -> GetDefault(config, "api_type", "azure")
                    [] a = "api_version" -> Get(config, "api_version")
                    [] OTHER -> model_name],
              config, io, nid)

_configure_ollama(config, model_name, e, io, nid) ==
    Construct("OllamaEmbeddingFunction",
              Dict2("url", GetDefault(config, "url", "http://localhost:11434/api/embeddings"),
                    "model_name", model_name),
              config, io, nid)

_configure_vertexai(config, model_name, e, io, nid) ==
    Construct("GoogleVertexEmbeddingFunction",
              Dict2("model_name", model_name, "api_key", Get(config, "api_key")),
              config, io, nid)

_configure_google(config, model_name, e, io, nid) ==
    Construct("GoogleGenerativeAiEmbeddingFunction",
              Dict2("model_name", model_name, "api_key", Get(config, "api_key")),
              config, io, nid)

\* Faulty variant: try: return CohereEmbeddingFunction(...) except Exception: return None
_configure_cohere_Swallow(config, model_name, e, io, nid) ==
    LET r == Construct("CohereEmbeddingFunction",
                       Dict2("model_name", model_name, "api_key", Get(config, "api_key")),
                       config, io, nid)
    IN IF r.kind = "raised" THEN Returned(NoValue, r.trace, config) ELSE r

\* Faulty variant: the adapter keeps the first client it built and returns it again
_configure_cohere_Cached(config, model_name, e, io, nid) ==
    Construct("CohereEmbeddingFunction",
              Dict2("model_name", model_name, "api_key", Get(config, "api_key")),
              config, io, 1)

_configure_cohere(config, model_name, e, io, nid) ==
    Construct("CohereEmbeddingFunction",
              Dict2("model_name", model_name, "api_key", Get(config, "api_key")),
              config, io, nid)

_configure_voyageai(config, model_name, e, io, nid) ==
    Construct("VoyageAIEmbeddingFunction",
              Dict2("model_name", model_name, "api_key", Get(config, "api_key")),
              config, io, nid)

_configure_bedrock(config, model_name, e, io, nid) ==
    Construct("AmazonBedrockEmbeddingFunction",
              [a \in {"session"} |-> Get(config, "session")],
              config, io, nid)

_configure_huggingface(config, model_name, e, io, nid) ==
    Construct("HuggingFaceEmbeddingServer",
              [a \in {"url"} |-> Get(config, "api_url")],
              config, io, nid)

\* validate_embedding_function(v) of chromadb: the text of the ValueError it
\* raises, "" when v passes
ValidationError(v) ==
    IF v = EF_BAD
    THEN "Expected EmbeddingFunction.__call__ to have the following signature"
    ELSE ""

\* Faulty variant: raise ValueError("Invalid custom embedding function")
ValidateAndReturn_NoDiagnostic(v, config) ==
    LET diag == ValidationError(v)
        ev == Event("validate", "validate_embedding_function", [a \in {"obj"} |-> v], diag /= "")
    IN IF diag = ""
       THEN Returned(Obj(v), <<ev>>, config)
       ELSE Raised([type |-> "ValueError", msg |-> "Invalid custom embedding function",
                    detail |-> "", supported |-> <<>>, cause |-> ""],
                   <<ev>>, config)

\* try: validate_embedding_function(v); return v
\* except Exception as e: raise ValueError(f"Invalid custom embedding function: {str(e)}")
ValidateAndReturn(v, config) ==
    LET diag == ValidationError(v)
        ev == Event("validate", "validate_embedding_function", [a \in {"obj"} |-> v], diag /= "")
    IN IF diag = ""
       THEN Returned(Obj(v), <<ev>>, config)
       ELSE Raised([type |-> "ValueError", msg |-> "Invalid custom embedding function: ",
                    detail |-> diag, supported |-> <<>>, cause |-> ""],
                   <<ev>>, config)

_configure_custom(config, model_name, e, io, nid) ==
    LET embedder == Get(config, "embedder")
    IN IF ~Truthy(embedder) \/ ~IsEmbeddingFunction(embedder)
       THEN Raised([type |-> "ValueError",
                    msg |-> "Custom provider requires a valid EmbeddingFunction instance",
                    detail |-> "", supported |-> <<>>, cause |-> ""],
                   <<>>, config)
       ELSE ValidateAndReturn(embedder, config)

\* Faulty variant: the ibm_watsonx_ai import sits inside __call__
_configure_watson_Deferred(config, model_name, e, io, nid) ==
    Returned([cls |-> "WatsonEmbeddingFunction", id |-> nid],
             <<Event("ctor", "WatsonEmbeddingFunction", EmptyDict, FALSE)>>,
             config)

_configure_watson(config, model_name, e, io, nid) ==
    LET imp == Event("import", "ibm_watsonx_ai", EmptyDict, ~io.sdk_installed)
    IN IF ~io.sdk_installed
       THEN Raised([type |-> "ImportError",
                    msg |-> "IBM Watson dependencies are not installed. Please install them to use Watson embedding.",
                    detail |-> "", supported |-> <<>>,
                    cause |-> "ImportError: No module named 'ibm_watsonx_ai'"],
                   <<imp>>, config)
       ELSE Returned([cls |-> "WatsonEmbeddingFunction", id |-> nid],
                     <<imp, Event("ctor", "WatsonEmbeddingFunction", EmptyDict, FALSE)>>,
                     config)

\* EmbedParams.TRUNCATE_INPUT_TOKENS: 3
TRUNCATE_INPUT_TOKENS == 3

\* WatsonEmbeddingFunction.__call__(input), config being the dict the adapter was
\* given.  input is [is_str, docs]: a str is wrapped into a one-element list.
\* wio is what the SDK does: "client_raises" (watson_models.Embeddings(...) raises,
\* outside the try), "embed_raises" (embed_documents raises: printed, then
\* re-raised) or "ok".
WatsonEmbeddingFunction__call__(config, input, wio) ==
    LET docs == input.docs
        client == [a \in {"model_id", "api_key", "url", "project_id"} |->
                      CASE a = "model_id" -> Get(config, "model")
                        [] a = "api_key" -> Get(config, "api_key")
                        [] a = "url" -> Get(config, "api_url")
                        [] OTHER -> Get(config, "project_id")]
    IN [kind |-> IF wio = "ok" THEN "returned" ELSE "raised",
        printed |-> wio = "embed_raises",
        client |-> client,
        truncate |-> TRUNCATE_INPUT_TOKENS,
        embedded |-> IF wio = "client_raises" THEN <<>> ELSE docs]

(***************************************************************************)
(* Registry                                                                *)
(***************************************************************************)
\* EmbeddingConfigurator.__init__: the dict literal, in insertion order
__init__ ==
    << [key |-> "openai", fn |-> "_configure_openai"],
       [key |-> "azure", fn |-> "_configure_azure"],
       [key |-> "ollama", fn |-> "_configure_ollama"],
       [key |-> "vertexai", fn |-> "_configure_vertexai"],
       [key |-> "google", fn |-> "_configure_google"],
       [key |-> "cohere", fn |-> "_configure_cohere"],
       [key |-> "voyageai", fn |-> "_configure_voyageai"],
       [key |-> "bedrock", fn |-> "_configure_bedrock"],
       [key |-> "huggingface", fn |-> "_configure_huggingface"],
       [key |-> "watson", fn |-> "_configure_watson"],
       [key |-> "custom", fn |-> "_configure_custom"] >>

\* Faulty variant: the message lists a literal that predates watson and custom
SupportedProviders_Stale(reg) ==
    <<"openai", "azure", "ollama", "vertexai", "google", "cohere", "voyageai", "bedrock",
      "huggingface">>

\* list(self.embedding_functions.keys())
SupportedProviders(reg) == [i \in 1..Len(reg) |-> reg[i].key]

\* provider in self.embedding_functions
InRegistry(reg, provider) == \E i \in 1..Len(reg) : reg[i].key = provider

\* self.embedding_functions[provider]
Lookup(reg, provider) == reg[CHOOSE i \in 1..Len(reg) : reg[i].key = provider].fn

\* fn(config, model_name) for a bound method fn of the registry
Invoke(fn, config, model_name, e, io, nid) ==
    CASE fn = "_configure_openai" -> _configure_openai(config, model_name, e, io, nid)
      [] fn = "_configure_azure" -> _configure_azure(config, model_name, e, io, nid)
      [] fn = "_configure_ollama" -> _configure_ollama(config, model_name, e, io, nid)
      [] fn = "_configure_vertexai" -> _configure_vertexai(config, model_name, e, io, nid)
      [] fn = "_configure_google" -> _configure_google(config, model_name, e, io, nid)
      [] fn = "_configure_cohere" -> _configure_cohere(config, model_name, e, io, nid)
      [] fn = "_configure_voyageai" -> _configure_voyageai(config, model_name, e, io, nid)
      [] fn = "_configure_bedrock" -> _configure_bedrock(config, model_name, e, io, nid)
      [] fn = "_configure_huggingface" -> _configure_huggingface(config, model_name, e, io, nid)
      [] fn = "_configure_watson" -> _configure_watson(config, model_name, e, io, nid)
      [] fn = "_configure_custom" -> _configure_custom(config, model_name, e, io, nid)

\* raise Exception(f"Unsupported embedding provider: {provider}, supported providers: {list(...)}")
UnsupportedProvider(reg, provider) ==
    [type |-> "Exception", msg |-> "Unsupported embedding provider: ", detail |-> provider,
     supported |-> SupportedProviders(reg), cause |-> ""]

\* lines 70-74: the registry test and the adapter call
Dispatch(reg, provider, config, model_name, e, io, nid) ==
    IF ~InRegistry(reg, provider)
    THEN Raised(UnsupportedProvider(reg, provider),
                <<Event("lookup", provider, EmptyDict, TRUE)>>, config)
    ELSE LET r == Invoke(Lookup(reg, provider), config, model_name, e, io, nid)
         IN [r EXCEPT !.trace = <<Event("lookup", provider, EmptyDict, FALSE)>> \o r.trace]

(***************************************************************************)
(* Dispatcher                                                              *)
(***************************************************************************)
RECURSIVE configure_embedder(_, _, _, _, _)

\* A request dict {"provider": provider, "config": config}
RequestDict(provider, config) == [provider |-> provider, has_config |-> TRUE, config |-> config]

\* Faulty variant: CREWAI_EMBEDDING_PROVIDER is not read
_create_default_embedding_function_OpenAIOnly(e, io, nid) ==
    LET config == Dict2("api_key", Getenv(e, "OPENAI_API_KEY"),
                        "model", GetenvDefault(e, "CREWAI_EMBEDDING_MODEL", "text-embedding-3-small"))
    IN configure_embedder(__init__, <<RequestDict("openai", config)>>, e, io, nid)

_create_default_embedding_function(e, io, nid) ==
    LET provider == GetenvDefault(e, "CREWAI_EMBEDDING_PROVIDER", "openai")
        config == Dict2("api_key", Getenv(e, "OPENAI_API_KEY"),
                        "model", GetenvDefault(e, "CREWAI_EMBEDDING_MODEL", "text-embedding-3-small"))
    IN configure_embedder(__init__, <<RequestDict(provider, config)>>, e, io, nid)

\* self is the registry of the called configurator; embedder_config is <<>>
\* for None and <<d>> for a dict d.  The result also says what the call left
\* in the caller's dict and in self.embedding_functions.
configure_embedder(self, embedder_config, e, io, nid) ==
    IF Len(embedder_config) = 0
    THEN LET r == _create_default_embedding_function(e, io, nid)
         IN [r EXCEPT !.request = embedder_config, !.registry = self,
                      !.resolves = <<embedder_config>> \o r.resolves]
    ELSE LET d == embedder_config[1]
             provider == d.provider
             config == IF d.has_config THEN d.config ELSE EmptyDict
             model_name == Get(config, "model")
             r == IF IsEmbeddingFunction(provider)
                  THEN ValidateAndReturn(provider, config)
                  ELSE Dispatch(self, provider, config, model_name, e, io, nid)
         IN [kind |-> r.kind, value |-> r.value, exc |-> r.exc, trace |-> r.trace,
             request |-> <<[d EXCEPT !.config = IF d.has_config THEN r.config ELSE d.config]>>,
             registry |-> self,
             resolves |-> <<embedder_config>>]

(***************************************************************************)
(* Inputs                                                                  *)
(***************************************************************************)
RegistryKeys == {"openai", "azure", "ollama", "vertexai", "google", "cohere", "voyageai",
                 "bedrock", "huggingface", "watson", "custom"}

\* what a caller may put under "provider": a registry key, another string,
\* nothing (None), or an object
Providers == RegistryKeys \cup {"mistral", PyNone, EF_OK, EF_BAD, EF_FALSY, NOT_EF}

OptionNames == {"api_key", "model", "api_base", "api_type", "api_version", "url", "session",
                "api_url", "project_id", "embedder"}

OptionValues(k) ==
    CASE k = "api_key" -> {"sk-config", ""}
      [] k = "model" -> {"text-embedding-3-large"}
      [] k = "api_base" -> {"https://res.openai.azure.com"}
      [] k = "api_type" -> {"azure_ad", ""}
      [] k = "api_version" -> {"2024-02-01"}
      [] k = "url" -> {"http://ollama:11434/api/embeddings"}
      [] k = "session" -> {"<boto3 session>"}
      [] k = "api_url" -> {"https://hf.example/embed"}
      [] k = "project_id" -> {"proj-1"}
      [] k = "embedder" -> {EF_OK, EF_BAD, EF_FALSY, NOT_EF}

\* the dicts with the given keys
DictsOver(keys) ==
    {c \in [keys -> UNION {OptionValues(k) : k \in keys}] : \A k \in keys : c[k] \in OptionValues(k)}

Configs ==
    UNION {DictsOver(keys) : keys \in {ks \in SUBSET OptionNames : Cardinality(ks) <= MaxConfigKeys}}

\* the embedder_config dicts: with a "config" entry, or without one
Requests ==
    {[provider |-> p, has_config |-> TRUE, config |-> c] : p \in Providers, c \in Configs}
    \cup {[provider |-> p, has_config |-> FALSE, config |-> EmptyDict] : p \in Providers}

EnvValues(n) ==
    CASE n = "CREWAI_EMBEDDING_PROVIDER" -> {"ollama", "mistral"}
      [] n = "OPENAI_API_KEY" -> {"sk-env", ""}
      [] n = "CREWAI_EMBEDDING_MODEL" -> {"text-embedding-ada-002"}

EnvNames == {"CREWAI_EMBEDDING_PROVIDER", "OPENAI_API_KEY", "CREWAI_EMBEDDING_MODEL"}

Environments ==
    UNION {{e \in [names -> UNION {EnvValues(n) : n \in names}] :
                \A n \in names : e[n] \in EnvValues(n)} : names \in SUBSET EnvNames}

IO == [ctor_raises : BOOLEAN, sdk_installed : BOOLEAN]

(***************************************************************************)
(* The state machine: one configurator, one caller                         *)
(***************************************************************************)
NoOutcome == [kind |-> "none", value |-> NoValue, exc |-> NoExc]

NoEmbedding ==
    [kind |-> "none", printed |-> FALSE, client |-> EmptyDict, truncate |-> 0, embedded |-> <<>>]

\* what a Watson embedding function is called with: a str or a list of str
Documents ==
    {[is_str |-> TRUE, docs |-> <<"doc a">>], [is_str |-> FALSE, docs |-> <<"doc a">>],
     [is_str |-> FALSE, docs |-> <<"doc a", "doc b">>]}

WatsonIO == {"ok", "client_raises", "embed_raises"}

\* _configure_openai is the only adapter that reads os.environ, and the default
\* path never sees the caller's request: every environment is paired with every
\* request for openai, and the empty environment with every request.
Init ==
    /\ env \in Environments
    /\ request \in Requests
    /\ \/ request.provider = "openai"
       \/ DOMAIN env = {}
    /\ embedding_functions = __init__
    /\ outcome = NoOutcome
    /\ trace = <<>>
    /\ resolves = <<>>
    /\ instances = 0
    /\ prev = NoValue
    /\ last = [op |-> "none", nid |-> 0]
    /\ embedding = NoEmbedding

\* the caller's view after a call that did r
Called(op, r) ==
    /\ outcome' = [kind |-> r.kind, value |-> r.value, exc |-> r.exc]
    /\ trace' = r.trace
    /\ resolves' = r.resolves
    /\ embedding_functions' = r.registry
    /\ request' = IF Len(r.request) = 0 THEN request ELSE r.request[1]
    /\ instances' = IF r.kind = "returned" /\ r.value.id > instances THEN r.value.id ELSE instances
    /\ prev' = IF outcome.kind = "returned" THEN outcome.value ELSE prev
    /\ last' = [op |-> op, nid |-> instances]
    /\ embedding' = NoEmbedding
    /\ UNCHANGED env

\* EmbeddingConfigurator.configure_embedder(request)
ConfigureEmbedder ==
    /\ instances < MaxInstances
    /\ \E io \in IO :
         Called("request", configure_embedder(embedding_functions, <<request>>, env, io, instances + 1))

\* EmbeddingConfigurator.configure_embedder(): no request
ConfigureEmbedderDefault ==
    /\ instances < MaxInstances
    /\ \E io \in IO :
         Called("default", configure_embedder(embedding_functions, <<>>, env, io, instances + 1))

\* the caller calls the WatsonEmbeddingFunction the last call returned
WatsonEmbed ==
    /\ outcome.kind = "returned"
    /\ outcome.value.cls = "WatsonEmbeddingFunction"
    /\ \E input \in Documents, wio \in WatsonIO :
         embedding' = WatsonEmbeddingFunction__call__(
                          resolves[Len(resolves)][1].config, input, wio)
    /\ UNCHANGED <<env, embedding_functions, request, outcome, trace, resolves, instances,
                   prev, last>>

Next == ConfigureEmbedder \/ ConfigureEmbedderDefault \/ WatsonEmbed

Spec == Init /\ [][Next]_vars

(***************************************************************************)
(* Vocabulary of the properties                                            *)
(***************************************************************************)
ByRequest == last.op = "request"
ByDefault == last.op = "default"

\* the caller's config: embedder_config.get("config", {})
Config == IF request.has_config THEN request.config ELSE EmptyDict

\* the dict the innermost configure_embedder invocation of the last call worked on
Dispatched == resolves[Len(resolves)][1]

IsCtor(ev) == ev.op = "ctor"
Ctors == SelectSeq(trace, IsCtor)

\* the last call kept away from the adapters: nothing was validated, imported or constructed
NoAdapterRan == \A i \in DOMAIN trace : trace[i].op = "lookup"

\* the value of an environment variable, dflt when it is not set
EnvOr(name, dflt) == IF name \in DOMAIN env THEN env[name] ELSE dflt

\* the request the environment stands for
SynthesizedRequest ==
    [provider |-> EnvOr("CREWAI_EMBEDDING_PROVIDER", "openai"),
     has_config |-> TRUE,
     config |-> [k \in {"api_key", "model"} |->
                    IF k = "api_key" THEN EnvOr("OPENAI_API_KEY", PyNone)
                    ELSE EnvOr("CREWAI_EMBEDDING_MODEL", "text-embedding-3-small")]]

\* v is none of the objects that existed when the last call began, nor the
\* object the previous successful call returned
CreatedByLastCall(v) == v.id = last.nid + 1 /\ v /= prev

\* the last call was handed the EmbeddingFunction it is to return
PassThrough == IsEmbeddingFunction(Dispatched.provider) \/ Dispatched.provider = "custom"

Supplied ==
    IF IsEmbeddingFunction(Dispatched.provider)
    THEN Dispatched.provider
    ELSE Get(Dispatched.config, "embedder")

\* the last call made one client constructor call: OpenAIEmbeddingFunction with
\* exactly api_key and model_name, the latter being the config's model
OpenAICall(api_key) ==
    /\ Len(Ctors) = 1
    /\ Ctors[1].name = "OpenAIEmbeddingFunction"
    /\ Ctors[1].args = [a \in {"api_key", "model_name"} |->
                           IF a = "api_key" THEN api_key ELSE Get(Config, "model")]

(***************************************************************************)
(* C1: a provider that is not an EmbeddingFunction instance and not one of *)
(* the 11 registry keys (None included) makes resolve fail with the        *)
(* unsupported-provider error; no adapter runs and the error lists every   *)
(* supported identifier.                                                   *)
(***************************************************************************)
C1_UnsupportedProvider ==
    (last.op /= "none" /\ ~IsEmbeddingFunction(Dispatched.provider)
                       /\ Dispatched.provider \notin RegistryKeys)
    => /\ outcome.kind = "raised"
       /\ outcome.value = NoValue
       /\ outcome.exc.type = "Exception"
       /\ outcome.exc.msg = "Unsupported embedding provider: "
       /\ outcome.exc.detail = Dispatched.provider
       /\ \A k \in RegistryKeys :
             \E i \in DOMAIN outcome.exc.supported : outcome.exc.supported[i] = k
       /\ NoAdapterRan

C1_Witness ==
    /\ ByRequest
    /\ request.provider = PyNone
    /\ outcome.exc.type = "Exception"
    /\ Len(outcome.exc.supported) = 11

(***************************************************************************)
(* C2: resolve without a request does exactly what resolve does with       *)
(* {provider: P, config: {api_key: K, model: M}}, where P, K and M come    *)
(* from the environment (P "openai" and M "text-embedding-3-small" when    *)
(* unset, K None when unset): the same value or failure from the same      *)
(* validations, lookups, imports and constructor calls; the default path   *)
(* makes one nested resolve call, with that request, and never re-enters   *)
(* itself.                                                                 *)
(***************************************************************************)
C2_DefaultIsSynthesizedRequest ==
    ByDefault
    => /\ \E io \in IO :
            LET r == configure_embedder(embedding_functions, <<SynthesizedRequest>>, env, io,
                                        last.nid + 1)
            IN /\ outcome = [kind |-> r.kind, value |-> r.value, exc |-> r.exc]
               /\ trace = r.trace
       /\ resolves = << <<>>, <<SynthesizedRequest>> >>

C2_Witness ==
    /\ ByDefault
    /\ DOMAIN env = {"OPENAI_API_KEY"}
    /\ outcome.kind = "returned"
    /\ outcome.value.cls = "OpenAIEmbeddingFunction"
    /\ Len(resolves) = 2

(***************************************************************************)
(* C3: with provider "custom", an embedder that is absent, is no           *)
(* EmbeddingFunction instance or fails the conformance check makes resolve *)
(* fail with the invalid-custom-embedder error (a ValueError) and return   *)
(* nothing; a conformant EmbeddingFunction instance is returned itself.    *)
(***************************************************************************)
C3_Custom ==
    (ByRequest /\ request.provider = "custom")
    => LET embedder == Get(Config, "embedder")
       IN IF IsEmbeddingFunction(embedder) /\ ValidationError(embedder) = ""
          THEN outcome.kind = "returned" /\ outcome.value = Obj(embedder)
          ELSE outcome.kind = "raised" /\ outcome.exc.type = "ValueError"
               /\ outcome.value = NoValue

(***************************************************************************)
(* C4: a provider that is an EmbeddingFunction instance never reaches the  *)
(* registry: the conformance check runs once, a passing instance is        *)
(* returned itself, and a failing one makes resolve fail with the          *)
(* invalid-custom-embedder error, whose text carries the validation        *)
(* diagnostic, and return nothing.                                         *)
(***************************************************************************)
C4_InstanceProvider ==
    (ByRequest /\ IsEmbeddingFunction(request.provider))
    => /\ Len(trace) = 1
       /\ trace[1].op = "validate"
       /\ trace[1].args = [a \in {"obj"} |-> request.provider]
       /\ IF ValidationError(request.provider) = ""
          THEN outcome.kind = "returned" /\ outcome.value = Obj(request.provider)
          ELSE /\ outcome.kind = "raised"
               /\ outcome.value = NoValue
               /\ outcome.exc.type = "ValueError"
               /\ outcome.exc.msg = "Invalid custom embedding function: "
               /\ outcome.exc.detail = ValidationError(request.provider)

C4_Witness ==
    /\ ByRequest
    /\ request.provider = EF_BAD
    /\ outcome.kind = "raised"
    /\ outcome.exc.detail /= ""

(***************************************************************************)
(* C5: when a provider's client constructor raises, resolve fails with     *)
(* that very error as the construction failure: it is not swallowed, no    *)
(* value is returned, and the constructor was called exactly once.         *)
(***************************************************************************)
C5_ConstructionFailurePropagates ==
    \A i \in DOMAIN trace :
        (trace[i].op = "ctor" /\ trace[i].raised)
        => /\ outcome.kind = "raised"
           /\ outcome.value = NoValue
           /\ outcome.exc = ClientError(trace[i].name)
           /\ Len(Ctors) = 1

C5_Witness ==
    /\ ByRequest
    /\ request.provider = "cohere"
    /\ Len(Ctors) = 1
    /\ Ctors[1].raised
    /\ outcome.kind = "raised"

(***************************************************************************)
(* C6: every successful resolve call returns an EmbeddingFunction that     *)
(* this call created: it is none of the objects that existed before the    *)
(* call and differs from what the previous successful call returned, for   *)
(* every provider, custom and the instance-as-provider path included.      *)
(***************************************************************************)
C6_AlwaysFresh == outcome.kind = "returned" => CreatedByLastCall(outcome.value)

(***************************************************************************)
(* C6, amended: a successful resolve through a registry adapter other than *)
(* custom returns an object this call created (two calls with the same     *)
(* input give two objects, nothing is cached); through custom, or with an  *)
(* instance as provider, it returns the caller's own instance, the same    *)
(* one on every call.                                                      *)
(***************************************************************************)
C6_FreshUnlessPassThrough ==
    outcome.kind = "returned"
    => IF PassThrough
       THEN outcome.value = Obj(Supplied)
       ELSE CreatedByLastCall(outcome.value)

C6_Witness ==
    /\ ByRequest
    /\ request.provider = "cohere"
    /\ outcome.kind = "returned"
    /\ prev.cls = "CohereEmbeddingFunction"
    /\ outcome.value.cls = "CohereEmbeddingFunction"
    /\ outcome.value.id = 2

C8_DefaultsOnlyWhenMissing ==
    /\ (ByRequest /\ request.provider = "azure")
       => /\ Len(Ctors) = 1
          /\ Ctors[1].args["api_type"] =
                IF "api_type" \in DOMAIN Config THEN Config["api_type"] ELSE "azure"
    /\ (ByRequest /\ request.provider = "ollama")
       => /\ Len(Ctors) = 1
          /\ Ctors[1].args["url"] =
                IF "url" \in DOMAIN Config THEN Config["url"]
                ELSE "http://localhost:11434/api/embeddings"

C8_Witness ==
    /\ ByRequest
    /\ request.provider = "azure"
    /\ "api_type" \notin DOMAIN Config
    /\ "api_base" \in DOMAIN Config
    /\ Len(Ctors) = 1
    /\ Ctors[1].args["api_type"] = "azure"

(***************************************************************************)
(* C9: when the ibm_watsonx_ai import fails, resolve for watson fails at   *)
(* construction with an ImportError that keeps the import failure as its   *)
(* cause, and returns nothing; a watson embedding function is returned     *)
(* only once the import has succeeded, so a missing SDK never waits for    *)
(* the first embedding call.                                               *)
(***************************************************************************)
C9_MissingSdkFailsAtConstruction ==
    /\ \A i \in DOMAIN trace :
          (trace[i].op = "import" /\ trace[i].raised)
          => /\ outcome.kind = "raised"
             /\ outcome.value = NoValue
             /\ outcome.exc.type = "ImportError"
             /\ outcome.exc.cause /= ""
             /\ Len(Ctors) = 0
    /\ (last.op /= "none" /\ Dispatched.provider = "watson")
       => /\ Len(trace) >= 2
          /\ trace[2].op = "import"
          /\ outcome.kind = "returned" <=> ~trace[2].raised

C9_Witness ==
    /\ ByRequest
    /\ request.provider = "watson"
    /\ outcome.kind = "raised"
    /\ outcome.exc.type = "ImportError"

(***************************************************************************)
(* C10: no resolve call, with a request or without, changes the registry   *)
(* (always the 11 entries of initialization, bound to the same adapters)   *)
(* or writes to the caller's request and config.                           *)
(***************************************************************************)
C10_RegistryAndRequestUntouched ==
    [][/\ embedding_functions' = embedding_functions
       /\ embedding_functions = __init__
       /\ {embedding_functions'[i].key : i \in DOMAIN embedding_functions'} = RegistryKeys
       /\ Len(embedding_functions') = 11
       /\ request' = request]_vars

C10_Witness ==
    /\ ByRequest
    /\ request.provider = "azure"
    /\ "api_type" \notin DOMAIN Config
    /\ outcome.kind = "returned"
    /\ instances = 2
    /\ prev.cls = "OpenAIEmbeddingFunction"

====
